---- MODULE Spec2Model ----
(***************************************************************************)
(* symbios-robot: RobotInterpreter::build_blueprint as a state machine.    *)
(*                                                                         *)
(* One step of the machine is one iteration of the `for i in 0..len` loop  *)
(* of build_blueprint (src/src/interpreter.rs:166-363): the entry at index *)
(* i is resolved through op_map and dispatched to one arm of the `match`.  *)
(* The symbol stream is an input; its entries are chosen one at a time     *)
(* from a finite alphabet, so every stream over the alphabet up to the     *)
(* length bound is explored.                                               *)
(*                                                                         *)
(* Numbers.  f32 values are modelled by integers.  Lengths are even where  *)
(* the code halves them, so that x / 2.0 is exact.  Angles are whole       *)
(* multiples of 90 degrees, so that an orientation is one of the 24        *)
(* rotations of the cube and is held as the images of the X, Y and Z axes. *)
(* ModuleId keeps its width: it is a u16 (src/src/blueprint.rs:9).         *)
(* Option<T> is a sequence of length at most one: <<>> is None, <<x>> is   *)
(* Some(x).                                                                *)
(*                                                                         *)
(* Collections.  A u16 counter overflows after 2^16 spawns, so the model   *)
(* has to hold blueprints of that size.  A HashMap keyed by ModuleId and a *)
(* Vec are held as [bulk |-> n, over |-> f]: `over` is the collection      *)
(* written out, and `bulk` says that the stream began with n default box   *)
(* entries whose bodies, transforms and joints are not written out but     *)
(* given by PrefixModule and PrefixJoint.  With bulk = 0, as everywhere in *)
(* Spec and SpecStack, the collection is `over` itself.                    *)
(* ClosedFormPrefixAgrees checks the closed form against the code.         *)
(***************************************************************************)
EXTENDS Integers, Sequences, FiniteSets, TLC

VARIABLES
    pc,                 \* "loop" | "returned" | "panicked"
    i,                  \* loop index: number of entries handled so far
    view,               \* the entry handled by the last iteration, with its op
    turtle,             \* RobotTurtleState
    stack,              \* Vec<RobotTurtleState>
    blueprint,          \* RobotBlueprint
    module_transforms,  \* HashMap<ModuleId, (Vec3, Quat)>
    next_module_id,     \* ModuleId (u16)
    config,             \* RobotConfig
    state_len,          \* state.len(): the length of the symbol stream
    spawn_count,        \* history: number of spawn arms entered so far
    orphan_spawns,      \* history: those entered with no current body
    pre_turtle,         \* history: turtle before the last iteration
    pre_stack,          \* history: stack before the last iteration
    pushes,             \* history: the turtle at each Push entry so far
    pops,               \* history: number of Pop entries so far
    stream              \* history: the entries handled so far, in order

vars == <<pc, i, view, turtle, stack, blueprint, module_transforms,
          next_module_id, config, state_len, spawn_count, orphan_spawns,
          pre_turtle, pre_stack, pushes, pops, stream>>

(***************************************************************************)
(* Bounds of the model.                                                    *)
(***************************************************************************)
MaxLen == 3          \* stream length explored with the full alphabet
MaxStackLen == 6     \* stream length explored with the branching alphabet
MaxLongSteps == 3    \* entries explored after a long run of spawns
MaxDepth == 2        \* largest configured max_stack_depth
MaxSensorLen == 5    \* stream length explored with the sensor alphabet
MaxJointLen == 4     \* stream length explored with the joint alphabet
MaxShapeLen == 3     \* stream length explored with the shape alphabet
MaxConfigLen == 4    \* stream length explored with the configuration alphabet
MaxBranchLen == 5    \* stream length explored with the joint-and-branch alphabet
MaxMountLen == 5     \* stream length explored with the mount-and-branch alphabet

(***************************************************************************)
(* Program constants.                                                      *)
(***************************************************************************)
ModuleIdBits == 16
ModuleIdModulus == 2 ^ ModuleIdBits
U8Max == 255
PI == 3142           \* std::f32::consts::PI, in thousandths

(***************************************************************************)
(* Option                                                                  *)
(***************************************************************************)
None == <<>>
Some(x) == <<x>>
IsSome(o) == Len(o) = 1
Unwrap(o) == o[1]

(***************************************************************************)
(* glam::Vec3 and glam::Quat (restricted to the rotations of the cube)     *)
(***************************************************************************)
VecZERO == <<0, 0, 0>>
VecX == <<1, 0, 0>>
VecY == <<0, 1, 0>>
VecZ == <<0, 0, 1>>

VAdd(a, b) == <<a[1] + b[1], a[2] + b[2], a[3] + b[3]>>
VSub(a, b) == <<a[1] - b[1], a[2] - b[2], a[3] - b[3]>>
VScale(a, k) == <<a[1] * k, a[2] * k, a[3] * k>>

Abs(x) == IF x < 0 THEN 0 - x ELSE x
Half(x) == IF x < 0 THEN 0 - ((0 - x) \div 2) ELSE x \div 2

\* A rotation is <<image of X, image of Y, image of Z>>.
QuatIDENTITY == <<VecX, VecY, VecZ>>

\* Quat * Vec3
QRot(q, v) == VAdd(VAdd(VScale(q[1], v[1]), VScale(q[2], v[2])), VScale(q[3], v[3]))

\* Quat * Quat: (a * b) * v = a * (b * v)
QMul(a, b) == <<QRot(a, b[1]), QRot(a, b[2]), QRot(a, b[3])>>

\* Quat::inverse: the transpose
QInverse(q) == << <<q[1][1], q[2][1], q[3][1]>>,
                  <<q[1][2], q[2][2], q[3][2]>>,
                  <<q[1][3], q[2][3], q[3][3]>> >>

Cos90(deg) == CASE deg % 360 = 0 -> 1
                [] deg % 360 = 90 -> 0
                [] deg % 360 = 180 -> 0 - 1
                [] deg % 360 = 270 -> 0

Sin90(deg) == CASE deg % 360 = 0 -> 0
                [] deg % 360 = 90 -> 1
                [] deg % 360 = 180 -> 0
                [] deg % 360 = 270 -> 0 - 1

\* Quat::from_axis_angle for the three unit axes, angle in degrees
FromAxisAngle(axis, deg) ==
    LET c == Cos90(deg)
        s == Sin90(deg)
    IN CASE axis = VecX -> << VecX, <<0, c, s>>, <<0, 0 - s, c>> >>
         [] axis = VecY -> << <<c, 0, 0 - s>>, VecY, <<s, 0, c>> >>
         [] axis = VecZ -> << <<c, s, 0>>, <<0 - s, c, 0>>, VecZ >>

(***************************************************************************)
(* RobotConfig.  The configuration is an input of the interpreter; lengths *)
(* and widths are even, the default angle is a quarter turn (in degrees).  *)
(***************************************************************************)
RobotConfig(depth) ==
    [ default_length  |-> 2,
      default_width   |-> 2,
      default_density |-> 100,
      default_angle   |-> 90,
      max_stack_depth |-> depth ]

(***************************************************************************)
(* RobotOp, and the symbol-to-operation table built by set_op.             *)
(***************************************************************************)
RobotOp(name, arg) == [op |-> name, arg |-> arg]
Ignore == RobotOp("Ignore", 0)

SpawnOps == {"SpawnBox", "SpawnCylinder", "SpawnSphere", "SpawnCapsule"}

\* RobotInterpreter::set_op: grow the table with Ignore up to sym_id, then store.
set_op(map, sym_id, op) ==
    LET grown == IF sym_id >= Len(map)
                 THEN [k \in 1..(sym_id + 1) |-> IF k <= Len(map) THEN map[k] ELSE Ignore]
                 ELSE map
    IN [grown EXCEPT ![sym_id + 1] = op]

RECURSIVE set_ops(_, _)
set_ops(map, calls) ==
    IF calls = <<>> THEN map
    ELSE set_ops(set_op(map, calls[1][1], calls[1][2]), Tail(calls))

\* The table of the modelled interpreter.  Symbol 16 is never set: it is a
\* gap slot that set_op(17, ..) fills with Ignore.  Symbols >= 18 are outside.
op_map ==
    set_ops(<<>>, <<
        <<0,  RobotOp("SpawnBox", 0)>>,
        <<1,  RobotOp("SpawnCylinder", 0)>>,
        <<2,  RobotOp("SpawnSphere", 0)>>,
        <<3,  RobotOp("SpawnCapsule", 0)>>,
        <<4,  RobotOp("Move", 0)>>,
        <<5,  RobotOp("Yaw", 1)>>,
        <<6,  RobotOp("Pitch", 0 - 1)>>,
        <<7,  RobotOp("Roll", 1)>>,
        <<8,  RobotOp("TurnAround", 0)>>,
        <<9,  RobotOp("SetJointType", "Hinge")>>,
        <<10, RobotOp("SetJointLimits", 0)>>,
        <<11, RobotOp("SetMaterial", 0)>>,
        <<12, RobotOp("SetWidth", 0)>>,
        <<13, RobotOp("MountSensor", "Camera")>>,
        <<14, RobotOp("Push", 0)>>,
        <<15, RobotOp("Pop", 0)>>,
        <<17, RobotOp("MountSensor", "IMU")>> >>)

\* One entry of the symbol stream: a symbol id and its parameters.
Entry(sym, params) == [sym |-> sym, params |-> params]

\* the default box: the entry of a stream's closed-form prefix
BoxEntry == Entry(0, <<>>)

\* mutant of OpOf: a symbol outside the table is clamped to its last slot
OpOfClamped(e) == IF e.sym < Len(op_map) THEN op_map[e.sym + 1] ELSE op_map[Len(op_map)]

\* op_map.get(view.sym as usize).unwrap_or(&RobotOp::Ignore)
OpOf(e) == IF e.sym < Len(op_map) THEN op_map[e.sym + 1] ELSE Ignore

\* the closure p(idx, def)
p(e, idx, def) == IF idx < Len(e.params) THEN e.params[idx + 1] ELSE def

\* f32::NAN: the one float the integers do not model.  It is written as a
\* number no other parameter takes, is only ever a parameter of SetJointLimits,
\* where it is compared and stored and never computed with.
NaN == 0 - 2 ^ 30
IsNaN(x) == x = NaN

\* a <= b on f32: false when either side is NaN
FLe(a, b) == ~IsNaN(a) /\ ~IsNaN(b) /\ a <= b

\* `x as u8` on a float: saturating
AsU8(x) == IF x < 0 THEN 0 ELSE IF x > U8Max THEN U8Max ELSE x

(***************************************************************************)
(* RobotTurtleState                                                        *)
(***************************************************************************)
ActiveJointConfigDefault ==
    [ joint_type |-> "Fixed", axis |-> VecX, limits |-> None ]

RobotTurtleStateDefault(cfg) ==
    [ position          |-> VecZERO,
      rotation          |-> QuatIDENTITY,
      current_module_id |-> None,
      joint_config      |-> ActiveJointConfigDefault,
      material_id       |-> 0,
      width             |-> cfg.default_width ]

up(t) == QRot(t.rotation, VecY)

rotate_local_x(t, angle) == [t EXCEPT !.rotation = QMul(@, FromAxisAngle(VecX, angle))]
rotate_local_y(t, angle) == [t EXCEPT !.rotation = QMul(@, FromAxisAngle(VecY, angle))]
rotate_local_z(t, angle) == [t EXCEPT !.rotation = QMul(@, FromAxisAngle(VecZ, angle))]

(***************************************************************************)
(* RobotBlueprint                                                          *)
(***************************************************************************)
\* HashMap::new / Vec::new
Empty == [bulk |-> 0, over |-> <<>>]

\* mutant of RobotBlueprintDefault: the root starts at the first id
RobotBlueprintRootZero ==
    [ root_module |-> Some(0), modules |-> Empty, joints |-> Empty ]

RobotBlueprintDefault ==
    [ root_module |-> None, modules |-> Empty, joints |-> Empty ]

\* HashMap::contains_key, is_empty, keys
HasKey(m, k) == (0 <= k /\ k < m.bulk) \/ k \in DOMAIN m.over
MapIsEmpty(m) == m.bulk = 0 /\ DOMAIN m.over = {}
MapKeys(m) == (0..(m.bulk - 1)) \cup DOMAIN m.over

\* HashMap::insert: the value stored under an existing key is replaced.
MapInsert(m, k, v) ==
    [m EXCEPT !.over = [x \in (DOMAIN m.over) \cup {k} |-> IF x = k THEN v ELSE m.over[x]]]

\* Vec::len, Vec::push
VecLen(v) == v.bulk + Len(v.over)
VecPush(v, x) == [v EXCEPT !.over = Append(@, x)]

\* mutant of add_module: the root is set without the is_empty test
add_module_always_root(bp, id, module) ==
    [ bp EXCEPT !.root_module = Some(id),
                !.modules = MapInsert(@, id, module) ]

add_module(bp, id, module) ==
    [ bp EXCEPT !.root_module = IF MapIsEmpty(bp.modules) THEN Some(id) ELSE @,
                !.modules = MapInsert(@, id, module) ]

add_joint(bp, joint) == [bp EXCEPT !.joints = VecPush(@, joint)]

\* Volume of a shape as <<a, b>>, standing for a + b * pi / 3.
ShapeVolume(shape) ==
    LET d == shape.dims
    IN CASE shape.kind = "Box"      -> <<8 * d[1] * d[2] * d[3], 0>>
         [] shape.kind = "Cylinder" -> <<0, 3 * d[1] * d[1] * d[2]>>
         [] shape.kind = "Sphere"   -> <<0, 4 * d[1] * d[1] * d[1]>>
         [] shape.kind = "Capsule"  -> <<0, 3 * d[1] * d[1] * d[2] + 4 * d[1] * d[1] * d[1]>>

\* mutant of ShapeMass: the density is left out
ShapeMassOfUnitDensity(shape, density) == ShapeVolume(shape)

\* shape.to_bevy_primitive().mass(density)
ShapeMass(shape, density) ==
    <<ShapeVolume(shape)[1] * density, ShapeVolume(shape)[2] * density>>

(***************************************************************************)
(* The arms of the `match op` of build_blueprint, as functions of the      *)
(* locals s = [turtle, stack, blueprint, module_transforms,                *)
(* next_module_id], the entry e and the configuration cfg.                 *)
(***************************************************************************)
Locals(t, st, bp, mt, nid) ==
    [ turtle |-> t, stack |-> st, blueprint |-> bp,
      module_transforms |-> mt, next_module_id |-> nid ]

\* mutant of MoveArm: a move lifts the cursor off its current body
MoveArmDetaches(s, e, cfg) ==
    [s EXCEPT !.turtle.position =
                 VAdd(@, VScale(up(s.turtle), p(e, 0, cfg.default_length))),
              !.turtle.current_module_id = None]

\* RobotOp::Move
MoveArm(s, e, cfg) ==
    [s EXCEPT !.turtle.position =
        VAdd(@, VScale(up(s.turtle), p(e, 0, cfg.default_length)))]

\* RobotOp::Yaw(s) / Pitch(s) / Roll(s) / TurnAround
YawArm(s, e, cfg) ==
    [s EXCEPT !.turtle = rotate_local_z(@, p(e, 0, cfg.default_angle) * OpOf(e).arg)]
PitchArm(s, e, cfg) ==
    [s EXCEPT !.turtle = rotate_local_x(@, p(e, 0, cfg.default_angle) * OpOf(e).arg)]
RollArm(s, e, cfg) ==
    [s EXCEPT !.turtle = rotate_local_y(@, p(e, 0, cfg.default_angle) * OpOf(e).arg)]
TurnAroundArm(s) ==
    [s EXCEPT !.turtle = rotate_local_z(@, 180)]

\* `next_module_id += 1` on a u16: the values the statement can leave in
\* next_module_id.  On overflow a build with overflow checks panics (None)
\* and a build without them wraps to 0.
IncrementOutcomes(n) ==
    IF n + 1 < ModuleIdModulus THEN {Some(n + 1)}
    ELSE {Some((n + 1) % ModuleIdModulus), None}

\* mutant of SpawnShape: only the growth length is made positive
SpawnShapeSignedSection(opname, e, t, cfg) ==
    CASE opname = "SpawnBox" ->
            LET len == Abs(p(e, 0, cfg.default_length))
                wid == p(e, 1, t.width)
                hgt == p(e, 2, t.width)
            IN [ shape |-> [kind |-> "Box", dims |-> <<Half(wid), Half(len), Half(hgt)>>],
                 height_axis_len |-> len ]
      [] opname \in {"SpawnCylinder", "SpawnCapsule"} ->
            LET len == Abs(p(e, 0, cfg.default_length))
                rad == p(e, 1, Half(t.width))
            IN [ shape |-> [kind |-> IF opname = "SpawnCylinder" THEN "Cylinder" ELSE "Capsule",
                            dims |-> <<rad, len, 0>>],
                 height_axis_len |-> len ]
      [] opname = "SpawnSphere" ->
            LET rad == Abs(p(e, 0, Half(t.width)))
            IN [ shape |-> [kind |-> "Sphere", dims |-> <<rad, 0, 0>>],
                 height_axis_len |-> rad * 2 ]

\* 1. Determine Dimensions & Shape: [shape, height_axis_len]
SpawnShape(opname, e, t, cfg) ==
    CASE opname = "SpawnBox" ->
            LET len == Abs(p(e, 0, cfg.default_length))
                wid == Abs(p(e, 1, t.width))
                hgt == Abs(p(e, 2, t.width))
            IN [ shape |-> [kind |-> "Box", dims |-> <<Half(wid), Half(len), Half(hgt)>>],
                 height_axis_len |-> len ]
      [] opname = "SpawnCylinder" ->
            LET len == Abs(p(e, 0, cfg.default_length))
                rad == Abs(p(e, 1, Half(t.width)))
            IN [ shape |-> [kind |-> "Cylinder", dims |-> <<rad, len, 0>>],
                 height_axis_len |-> len ]
      [] opname = "SpawnCapsule" ->
            LET len == Abs(p(e, 0, cfg.default_length))
                rad == Abs(p(e, 1, Half(t.width)))
            IN [ shape |-> [kind |-> "Capsule", dims |-> <<rad, len, 0>>],
                 height_axis_len |-> len ]
      [] opname = "SpawnSphere" ->
            LET rad == Abs(p(e, 0, Half(t.width)))
            IN [ shape |-> [kind |-> "Sphere", dims |-> <<rad, 0, 0>>],
                 height_axis_len |-> rad * 2 ]

\* mutant of NewModule: the rest position is the cursor's, the body's base
NewModuleAtBase(sh, t, cfg) ==
    [ shape       |-> sh.shape,
      mass        |-> ShapeMass(sh.shape, cfg.default_density),
      density     |-> cfg.default_density,
      material_id |-> t.material_id,
      sensors     |-> <<>>,
      transform   |-> << t.position, t.rotation >> ]

\* 2. + 3. the RobotModule registered for the new body
NewModule(sh, t, cfg) ==
    [ shape       |-> sh.shape,
      mass        |-> ShapeMass(sh.shape, cfg.default_density),
      density     |-> cfg.default_density,
      material_id |-> t.material_id,
      sensors     |-> <<>>,
      transform   |-> << VAdd(t.position, VScale(up(t), Half(sh.height_axis_len))),
                         t.rotation >> ]

\* the cursor at the k-th entry (from 0) of a stream of default boxes
PrefixTurtle(k) ==
    [ RobotTurtleStateDefault(RobotConfig(0)) EXCEPT
        !.position = <<0, RobotConfig(0).default_length * k, 0>>,
        !.current_module_id = IF k = 0 THEN None ELSE Some(k - 1) ]

\* the body the first entry of such a stream spawns, and the body the k-th spawns
PrefixModule0 ==
    NewModule(SpawnShape("SpawnBox", BoxEntry, PrefixTurtle(0), RobotConfig(0)),
              PrefixTurtle(0), RobotConfig(0))

PrefixModule(k) ==
    [ PrefixModule0 EXCEPT
        !.transform[1] = VAdd(@, <<0, RobotConfig(0).default_length * k, 0>>) ]

\* module_transforms.get(&k), blueprint.modules.get(&k)
TransformAt(m, k) ==
    IF k \in DOMAIN m.over THEN m.over[k] ELSE PrefixModule(k).transform
ModuleAt(m, k) ==
    IF k \in DOMAIN m.over THEN m.over[k] ELSE PrefixModule(k)

\* the JointDefinition of lines 292-300, for a parent the guard of line 271 found
JointDefinition(t, id, height_axis_len, transforms) ==
    LET parent_id == Unwrap(t.current_module_id)
        parent_pos == TransformAt(transforms, parent_id)[1]
        parent_rot == TransformAt(transforms, parent_id)[2]
    IN [ parent_id     |-> parent_id,
         child_id      |-> id,
         anchor_parent |-> QRot(QInverse(parent_rot), VSub(t.position, parent_pos)),
         anchor_child  |-> <<0, 0 - Half(height_axis_len), 0>>,
         joint_type    |-> t.joint_config.joint_type,
         axis          |-> QRot(QInverse(parent_rot),
                                QRot(t.rotation, t.joint_config.axis)),
         limits        |-> t.joint_config.limits ]

\* mutant of NewJoints: the child is named by the counter after its increment
NewJointsChildOffByOne(t, id, height_axis_len, transforms) ==
    IF IsSome(t.current_module_id) /\ HasKey(transforms, Unwrap(t.current_module_id))
    THEN << JointDefinition(t, id + 1, height_axis_len, transforms) >>
    ELSE <<>>

\* 4. Create Joint (if parent exists): the joints the spawn appends, none or one
NewJoints(t, id, height_axis_len, transforms) ==
    IF IsSome(t.current_module_id) /\ HasKey(transforms, Unwrap(t.current_module_id))
    THEN << JointDefinition(t, id, height_axis_len, transforms) >>
    ELSE <<>>

\* the joint the first joined entry (the second) of a stream of default boxes
\* appends, and the joint the k-th entry appends, k >= 1
PrefixJoint1 ==
    JointDefinition(PrefixTurtle(1), 1, RobotConfig(0).default_length,
                    [bulk |-> 1, over |-> <<>>])

PrefixJoint(k) == [PrefixJoint1 EXCEPT !.parent_id = k - 1, !.child_id = k]

\* blueprint.joints[k - 1]
JointAt(v, k) == IF k <= v.bulk THEN PrefixJoint(k) ELSE v.over[k - v.bulk]

\* 5. Advance Turtle
\* mutant of AdvanceTurtle: the current body is named by the counter after its
\* increment
AdvanceTurtleToNextId(t, id, height_axis_len) ==
    [t EXCEPT !.position = VAdd(@, VScale(up(t), height_axis_len)),
              !.current_module_id = Some(id + 1)]

\* mutant of AdvanceTurtle: the cursor stops at the centre of the new body
AdvanceTurtleToCentre(t, id, height_axis_len) ==
    [t EXCEPT !.position = VAdd(@, VScale(up(t), Half(height_axis_len))),
              !.current_module_id = Some(id)]

AdvanceTurtle(t, id, height_axis_len) ==
    [t EXCEPT !.position = VAdd(@, VScale(up(t), height_axis_len)),
              !.current_module_id = Some(id)]

\* RobotOp::SpawnBox | SpawnCylinder | SpawnSphere | SpawnCapsule, when the
\* increment leaves `incremented` in next_module_id.
SpawnArm(s, e, cfg, incremented) ==
    LET id == s.next_module_id
        t == s.turtle
        sh == SpawnShape(OpOf(e).op, e, t, cfg)
        module == NewModule(sh, t, cfg)
        transforms == MapInsert(s.module_transforms, id, module.transform)
        joints == NewJoints(t, id, sh.height_axis_len, transforms)
        bp1 == add_module(s.blueprint, id, module)
        bp2 == IF joints = <<>> THEN bp1 ELSE add_joint(bp1, joints[1])
    IN Locals(AdvanceTurtle(t, id, sh.height_axis_len), s.stack, bp2,
              transforms, incremented)

\* mutant of SetJointTypeArm: a new joint type clears the limits
SetJointTypeArmClearsLimits(s, e) ==
    [s EXCEPT !.turtle.joint_config.joint_type = OpOf(e).arg,
              !.turtle.joint_config.limits = None]

\* RobotOp::SetJointType(t)
SetJointTypeArm(s, e) ==
    [s EXCEPT !.turtle.joint_config.joint_type = OpOf(e).arg]

\* RobotOp::SetJointLimits
SetJointLimitsArm(s, e) ==
    LET a == p(e, 0, 0 - PI)
        b == p(e, 1, PI)
        min == IF FLe(a, b) THEN a ELSE b
        max == IF FLe(a, b) THEN b ELSE a
    IN [s EXCEPT !.turtle.joint_config.limits =
            Some([min |-> min, max |-> max,
                  effort |-> p(e, 2, 100), velocity |-> p(e, 3, 10)])]

\* RobotOp::SetMaterial / SetWidth
SetMaterialArm(s, e) == [s EXCEPT !.turtle.material_id = AsU8(p(e, 0, 0))]
SetWidthArm(s, e) == [s EXCEPT !.turtle.width = p(e, 0, s.turtle.width)]

\* mutant of MountSensorArm: the sensor goes to the body spawned last
MountSensorArmOnLatest(s, e) ==
    LET t == s.turtle
        mod_id == s.next_module_id - 1
    IN IF IsSome(t.current_module_id) /\ HasKey(s.module_transforms, mod_id)
          /\ HasKey(s.blueprint.modules, mod_id)
       THEN LET mod_pos == TransformAt(s.module_transforms, mod_id)[1]
                mod_rot == TransformAt(s.module_transforms, mod_id)[2]
                mount == [ sensor_type    |-> OpOf(e).arg,
                           local_position |-> QRot(QInverse(mod_rot), VSub(t.position, mod_pos)),
                           local_rotation |-> QMul(QInverse(mod_rot), t.rotation) ]
            IN [s EXCEPT !.blueprint.modules =
                    MapInsert(@, mod_id,
                              [ModuleAt(@, mod_id) EXCEPT !.sensors = Append(@, mount)])]
       ELSE s

\* mutant of MountSensorArm: without a current body the sensor goes to the root
MountSensorArmOnRoot(s, e) ==
    LET t == s.turtle
        mod_id == IF IsSome(t.current_module_id) THEN Unwrap(t.current_module_id) ELSE 0
    IN IF HasKey(s.module_transforms, mod_id) /\ HasKey(s.blueprint.modules, mod_id)
       THEN LET mod_pos == TransformAt(s.module_transforms, mod_id)[1]
                mod_rot == TransformAt(s.module_transforms, mod_id)[2]
                mount == [ sensor_type    |-> OpOf(e).arg,
                           local_position |-> QRot(QInverse(mod_rot), VSub(t.position, mod_pos)),
                           local_rotation |-> QMul(QInverse(mod_rot), t.rotation) ]
            IN [s EXCEPT !.blueprint.modules =
                    MapInsert(@, mod_id,
                              [ModuleAt(@, mod_id) EXCEPT !.sensors = Append(@, mount)])]
       ELSE s

\* RobotOp::MountSensor(sensor_type)
MountSensorArm(s, e) ==
    LET t == s.turtle
    IN IF IsSome(t.current_module_id)
          /\ HasKey(s.module_transforms, Unwrap(t.current_module_id))
       THEN LET mod_id == Unwrap(t.current_module_id)
                mod_pos == TransformAt(s.module_transforms, mod_id)[1]
                mod_rot == TransformAt(s.module_transforms, mod_id)[2]
                mount == [ sensor_type    |-> OpOf(e).arg,
                           local_position |-> QRot(QInverse(mod_rot), VSub(t.position, mod_pos)),
                           local_rotation |-> QMul(QInverse(mod_rot), t.rotation) ]
            IN IF HasKey(s.blueprint.modules, mod_id)
               THEN [s EXCEPT !.blueprint.modules =
                        MapInsert(@, mod_id,
                                  [ModuleAt(@, mod_id) EXCEPT !.sensors = Append(@, mount)])]
               ELSE s
       ELSE s

\* mutants of PushAllowed: an off-by-one bound, no bound, a bound of at least one
PushAllowedOffByOne(st, cfg) == Len(st) <= cfg.max_stack_depth
PushAllowedUnbounded(st, cfg) == TRUE
PushAllowedWhenEmpty(st, cfg) == Len(st) < cfg.max_stack_depth \/ st = <<>>

\* RobotOp::Push: stack.len() < self.config.max_stack_depth
PushAllowed(st, cfg) == Len(st) < cfg.max_stack_depth

PushArm(s, cfg) ==
    IF PushAllowed(s.stack, cfg)
    THEN [s EXCEPT !.stack = Append(@, s.turtle)]
    ELSE s

\* mutant of PopArm: the oldest snapshot is taken, not the newest
PopArmOldestFirst(s) ==
    IF s.stack # <<>>
    THEN [s EXCEPT !.turtle = s.stack[1], !.stack = Tail(@)]
    ELSE s

\* mutant of PopArm: on an empty stack the cursor falls back to no current body
PopArmResetOnEmpty(s) ==
    IF s.stack # <<>>
    THEN [s EXCEPT !.turtle = s.stack[Len(s.stack)],
                   !.stack = SubSeq(@, 1, Len(s.stack) - 1)]
    ELSE [s EXCEPT !.turtle.current_module_id = None,
                   !.turtle.position = VecZERO]

\* mutant of PopArm: the snapshot does not bring back the joint configuration
PopArmKeepsJointConfig(s) ==
    IF s.stack # <<>>
    THEN [s EXCEPT !.turtle = [s.stack[Len(s.stack)] EXCEPT
                                 !.joint_config = s.turtle.joint_config],
                   !.stack = SubSeq(@, 1, Len(s.stack) - 1)]
    ELSE s

\* RobotOp::Pop: if let Some(state) = stack.pop() { turtle = state; }
PopArm(s) ==
    IF s.stack # <<>>
    THEN [s EXCEPT !.turtle = s.stack[Len(s.stack)],
                   !.stack = SubSeq(@, 1, Len(s.stack) - 1)]
    ELSE s

(***************************************************************************)
(* The symbol streams explored.                                            *)
(***************************************************************************)
\* the full alphabet: every arm, the gap slot (16) and an outside symbol (18)
Entries ==
    { Entry(0, <<>>), Entry(0, <<0 - 4, 4, 2>>),
      Entry(1, <<>>), Entry(2, <<>>), Entry(3, <<4, 1>>),
      Entry(4, <<>>), Entry(5, <<>>), Entry(6, <<90>>), Entry(7, <<>>), Entry(8, <<>>),
      Entry(9, <<>>), Entry(10, <<5000, 0 - 5000, 50, 2>>),
      Entry(11, <<1>>), Entry(12, <<4>>),
      Entry(13, <<>>),
      Entry(14, <<>>), Entry(15, <<>>),
      Entry(16, <<>>), Entry(18, <<>>) }

\* the branching alphabet: spawn, one cursor mutation, push, pop
StackEntries ==
    { Entry(0, <<>>), Entry(11, <<1>>), Entry(14, <<>>), Entry(15, <<>>) }

\* the sensor alphabet: spawn, move, the two sensor mounts, push, pop
SensorEntries ==
    { Entry(0, <<>>), Entry(4, <<>>), Entry(13, <<>>), Entry(17, <<>>),
      Entry(14, <<>>), Entry(15, <<>>) }

\* the joint alphabet: spawn, joint type, limits (swapped, defaulted, one
\* above the default maximum, one not a number), push, pop
JointEntries ==
    { Entry(0, <<>>), Entry(9, <<>>),
      Entry(10, <<5000, 0 - 5000, 50, 2>>), Entry(10, <<>>), Entry(10, <<7000>>),
      Entry(10, <<NaN, 5000>>),
      Entry(14, <<>>), Entry(15, <<>>) }

\* the shape alphabet: every shape with negative and with positive
\* parameters, a negative width, a rotation
ShapeEntries ==
    { Entry(0, <<0 - 4, 4, 2>>), Entry(0, <<4, 0 - 4, 0 - 2>>), Entry(0, <<>>),
      Entry(1, <<0 - 4, 0 - 2>>), Entry(1, <<>>),
      Entry(2, <<0 - 2>>),
      Entry(3, <<0 - 4, 0 - 1>>),
      Entry(12, <<0 - 4>>),
      Entry(6, <<90>>) }

\* the configuration alphabet: spawn, the four configuration operations with
\* and without parameters, push, pop
ConfigEntries ==
    { Entry(0, <<>>),
      Entry(9, <<>>),
      Entry(10, <<5000, 0 - 5000, 50, 2>>), Entry(10, <<>>),
      Entry(11, <<1>>), Entry(11, <<300>>),
      Entry(12, <<4>>), Entry(12, <<>>),
      Entry(14, <<>>), Entry(15, <<>>) }

\* the joint-and-branch alphabet: spawn, joint type, limits, push, pop
BranchEntries ==
    { Entry(0, <<>>),
      Entry(9, <<>>), Entry(10, <<5000, 0 - 5000, 50, 2>>),
      Entry(14, <<>>), Entry(15, <<>>) }

\* the mount-and-branch alphabet: spawn, the two sensor mounts, push, pop
MountEntries ==
    { Entry(0, <<>>), Entry(13, <<>>), Entry(17, <<>>),
      Entry(14, <<>>), Entry(15, <<>>) }

(***************************************************************************)
(* The state at the start of build_blueprint (lines 154-164).              *)
(***************************************************************************)
NoView == [sym |-> 0, params |-> <<>>, op |-> "Start"]

Cur == Locals(turtle, stack, blueprint, module_transforms, next_module_id)

Fresh(cfg) ==
    Locals(RobotTurtleStateDefault(cfg), <<>>, RobotBlueprintDefault, Empty, 0)

InitWith(depths, lens) ==
    /\ config \in {RobotConfig(d) : d \in depths}
    /\ state_len \in lens
    /\ pc = "loop"
    /\ i = 0
    /\ view = NoView
    /\ turtle = Fresh(config).turtle
    /\ stack = Fresh(config).stack
    /\ blueprint = Fresh(config).blueprint
    /\ module_transforms = Fresh(config).module_transforms
    /\ next_module_id = Fresh(config).next_module_id
    /\ spawn_count = 0
    /\ orphan_spawns = 0
    /\ pre_turtle = Fresh(config).turtle
    /\ pre_stack = <<>>
    /\ pushes = <<>>
    /\ pops = 0
    /\ stream = Empty

Init == InitWith({0, MaxDepth}, 0..MaxLen)

(***************************************************************************)
(* One iteration of the loop.                                              *)
(***************************************************************************)
\* the iteration handled entry e and left the locals s2
Commit(e, s2) ==
    /\ pc = "loop"
    /\ i < state_len
    /\ pc' = "loop"
    /\ i' = i + 1
    /\ view' = [sym |-> e.sym, params |-> e.params, op |-> OpOf(e).op]
    /\ turtle' = s2.turtle
    /\ stack' = s2.stack
    /\ blueprint' = s2.blueprint
    /\ module_transforms' = s2.module_transforms
    /\ next_module_id' = s2.next_module_id
    /\ pre_turtle' = turtle
    /\ pre_stack' = stack
    /\ stream' = VecPush(stream, e)
    /\ UNCHANGED <<config, state_len>>

DoMove(e) ==
    /\ OpOf(e).op = "Move"
    /\ Commit(e, MoveArm(Cur, e, config))
    /\ UNCHANGED <<spawn_count, orphan_spawns, pushes, pops>>

DoYaw(e) ==
    /\ OpOf(e).op = "Yaw"
    /\ Commit(e, YawArm(Cur, e, config))
    /\ UNCHANGED <<spawn_count, orphan_spawns, pushes, pops>>

DoPitch(e) ==
    /\ OpOf(e).op = "Pitch"
    /\ Commit(e, PitchArm(Cur, e, config))
    /\ UNCHANGED <<spawn_count, orphan_spawns, pushes, pops>>

DoRoll(e) ==
    /\ OpOf(e).op = "Roll"
    /\ Commit(e, RollArm(Cur, e, config))
    /\ UNCHANGED <<spawn_count, orphan_spawns, pushes, pops>>

DoTurnAround(e) ==
    /\ OpOf(e).op = "TurnAround"
    /\ Commit(e, TurnAroundArm(Cur))
    /\ UNCHANGED <<spawn_count, orphan_spawns, pushes, pops>>

\* A spawn: the increment of next_module_id either succeeds (possibly
\* wrapping) and the arm runs to its end, or it panics and the call aborts.
DoSpawn(e) ==
    /\ OpOf(e).op \in SpawnOps
    /\ pc = "loop"
    /\ i < state_len
    /\ spawn_count' = spawn_count + 1
    /\ orphan_spawns' = orphan_spawns + (IF turtle.current_module_id = None THEN 1 ELSE 0)
    /\ UNCHANGED <<pushes, pops>>
    /\ \E incremented \in IncrementOutcomes(next_module_id) :
         IF IsSome(incremented)
         THEN Commit(e, SpawnArm(Cur, e, config, Unwrap(incremented)))
         ELSE /\ pc' = "panicked"
              /\ view' = [sym |-> e.sym, params |-> e.params, op |-> OpOf(e).op]
              /\ UNCHANGED <<i, turtle, stack, blueprint, module_transforms,
                             next_module_id, config, state_len, pre_turtle,
                             pre_stack, stream>>

DoSetJointType(e) ==
    /\ OpOf(e).op = "SetJointType"
    /\ Commit(e, SetJointTypeArm(Cur, e))
    /\ UNCHANGED <<spawn_count, orphan_spawns, pushes, pops>>

DoSetJointLimits(e) ==
    /\ OpOf(e).op = "SetJointLimits"
    /\ Commit(e, SetJointLimitsArm(Cur, e))
    /\ UNCHANGED <<spawn_count, orphan_spawns, pushes, pops>>

DoSetMaterial(e) ==
    /\ OpOf(e).op = "SetMaterial"
    /\ Commit(e, SetMaterialArm(Cur, e))
    /\ UNCHANGED <<spawn_count, orphan_spawns, pushes, pops>>

DoSetWidth(e) ==
    /\ OpOf(e).op = "SetWidth"
    /\ Commit(e, SetWidthArm(Cur, e))
    /\ UNCHANGED <<spawn_count, orphan_spawns, pushes, pops>>

DoMountSensor(e) ==
    /\ OpOf(e).op = "MountSensor"
    /\ Commit(e, MountSensorArm(Cur, e))
    /\ UNCHANGED <<spawn_count, orphan_spawns, pushes, pops>>

DoPush(e) ==
    /\ OpOf(e).op = "Push"
    /\ Commit(e, PushArm(Cur, config))
    /\ pushes' = Append(pushes, turtle)
    /\ UNCHANGED <<spawn_count, orphan_spawns, pops>>

DoPop(e) ==
    /\ OpOf(e).op = "Pop"
    /\ Commit(e, PopArm(Cur))
    /\ pops' = pops + 1
    /\ UNCHANGED <<spawn_count, orphan_spawns, pushes>>

DoIgnore(e) ==
    /\ OpOf(e).op = "Ignore"
    /\ Commit(e, Cur)
    /\ UNCHANGED <<spawn_count, orphan_spawns, pushes, pops>>

\* the stream is exhausted: `blueprint` is returned
Return ==
    /\ pc = "loop"
    /\ i = state_len
    /\ pc' = "returned"
    /\ UNCHANGED <<i, view, turtle, stack, blueprint, module_transforms,
                   next_module_id, config, state_len, spawn_count, orphan_spawns,
                   pre_turtle, pre_stack, pushes, pops, stream>>

\* streams over the full alphabet
Next ==
    \/ \E e \in Entries :
         \/ DoMove(e) \/ DoYaw(e) \/ DoPitch(e) \/ DoRoll(e) \/ DoTurnAround(e)
         \/ DoSpawn(e)
         \/ DoSetJointType(e) \/ DoSetJointLimits(e) \/ DoSetMaterial(e) \/ DoSetWidth(e)
         \/ DoMountSensor(e)
         \/ DoPush(e) \/ DoPop(e)
         \/ DoIgnore(e)
    \/ Return

Spec == Init /\ [][Next]_vars

\* longer streams over the branching alphabet
InitStack == InitWith(0..MaxDepth, 0..MaxStackLen)

NextStack ==
    \/ \E e \in StackEntries :
         DoSpawn(e) \/ DoSetMaterial(e) \/ DoPush(e) \/ DoPop(e)
    \/ Return

SpecStack == InitStack /\ [][NextStack]_vars

\* streams over the sensor alphabet
InitSensor == InitWith({MaxDepth}, 0..MaxSensorLen)

NextSensor ==
    \/ \E e \in SensorEntries :
         DoSpawn(e) \/ DoMove(e) \/ DoMountSensor(e) \/ DoPush(e) \/ DoPop(e)
    \/ Return

SpecSensor == InitSensor /\ [][NextSensor]_vars

\* streams over the joint alphabet
InitJoint == InitWith({MaxDepth}, 0..MaxJointLen)

NextJoint ==
    \/ \E e \in JointEntries :
         DoSpawn(e) \/ DoSetJointType(e) \/ DoSetJointLimits(e) \/ DoPush(e) \/ DoPop(e)
    \/ Return

SpecJoint == InitJoint /\ [][NextJoint]_vars

\* streams over the shape alphabet
InitShape == InitWith({MaxDepth}, 0..MaxShapeLen)

NextShape ==
    \/ \E e \in ShapeEntries : DoSpawn(e) \/ DoSetWidth(e) \/ DoPitch(e)
    \/ Return

SpecShape == InitShape /\ [][NextShape]_vars

\* streams over the configuration alphabet
InitConfig == InitWith({MaxDepth}, 0..MaxConfigLen)

NextConfig ==
    \/ \E e \in ConfigEntries :
         \/ DoSpawn(e)
         \/ DoSetJointType(e) \/ DoSetJointLimits(e) \/ DoSetMaterial(e) \/ DoSetWidth(e)
         \/ DoPush(e) \/ DoPop(e)
    \/ Return

SpecConfig == InitConfig /\ [][NextConfig]_vars

\* streams over the joint-and-branch alphabet, with every stack depth
InitBranch == InitWith(0..MaxDepth, 0..MaxBranchLen)

NextBranch ==
    \/ \E e \in BranchEntries :
         DoSpawn(e) \/ DoSetJointType(e) \/ DoSetJointLimits(e) \/ DoPush(e) \/ DoPop(e)
    \/ Return

SpecBranch == InitBranch /\ [][NextBranch]_vars

\* streams over the mount-and-branch alphabet, with every stack depth
InitMount == InitWith(0..MaxDepth, 0..MaxMountLen)

NextMount ==
    \/ \E e \in MountEntries :
         DoSpawn(e) \/ DoMountSensor(e) \/ DoPush(e) \/ DoPop(e)
    \/ Return

SpecMount == InitMount /\ [][NextMount]_vars

(***************************************************************************)
(* Long streams.  A u16 id counter needs 2^16 spawns to overflow, so the   *)
(* streams of SpecLong start with LongStart default box entries, and       *)
(* SpecLong starts in the state build_blueprint is in after them.          *)
(***************************************************************************)
LongStart == ModuleIdModulus - 1

\* the locals after n entries, each the default box, 1 <= n < 2^16
AfterBoxes(n) ==
    Locals(PrefixTurtle(n),
           <<>>,
           [ root_module |-> Some(0),
             modules     |-> [bulk |-> n, over |-> <<>>],
             joints      |-> [bulk |-> n - 1, over |-> <<>>] ],
           [bulk |-> n, over |-> <<>>],
           n)

InitLong ==
    /\ config = RobotConfig(MaxDepth)
    /\ state_len = LongStart + MaxLongSteps
    /\ pc = "loop"
    /\ i = LongStart
    /\ view = [sym |-> BoxEntry.sym, params |-> BoxEntry.params, op |-> OpOf(BoxEntry).op]
    /\ turtle = AfterBoxes(LongStart).turtle
    /\ stack = AfterBoxes(LongStart).stack
    /\ blueprint = AfterBoxes(LongStart).blueprint
    /\ module_transforms = AfterBoxes(LongStart).module_transforms
    /\ next_module_id = AfterBoxes(LongStart).next_module_id
    /\ spawn_count = LongStart
    /\ orphan_spawns = 1
    /\ pre_turtle = PrefixTurtle(LongStart - 1)
    /\ pre_stack = <<>>
    /\ pushes = <<>>
    /\ pops = 0
    /\ stream = [bulk |-> LongStart, over |-> <<>>]

SpecLong == InitLong /\ [][NextStack]_vars

(***************************************************************************)
(* The whole `match` as a function, and the run of a stream from the       *)
(* fresh state (the increment wraps, as in a build without overflow        *)
(* checks).                                                                *)
(***************************************************************************)
Exec(s, e, cfg) ==
    LET opname == OpOf(e).op
    IN CASE opname = "Move"           -> MoveArm(s, e, cfg)
         [] opname = "Yaw"            -> YawArm(s, e, cfg)
         [] opname = "Pitch"          -> PitchArm(s, e, cfg)
         [] opname = "Roll"           -> RollArm(s, e, cfg)
         [] opname = "TurnAround"     -> TurnAroundArm(s)
         [] opname \in SpawnOps       ->
                SpawnArm(s, e, cfg, (s.next_module_id + 1) % ModuleIdModulus)
         [] opname = "SetJointType"   -> SetJointTypeArm(s, e)
         [] opname = "SetJointLimits" -> SetJointLimitsArm(s, e)
         [] opname = "SetMaterial"    -> SetMaterialArm(s, e)
         [] opname = "SetWidth"       -> SetWidthArm(s, e)
         [] opname = "MountSensor"    -> MountSensorArm(s, e)
         [] opname = "Push"           -> PushArm(s, cfg)
         [] opname = "Pop"            -> PopArm(s)
         [] opname = "Ignore"         -> s

RECURSIVE Run(_, _, _)
Run(s, entries, cfg) ==
    IF entries = <<>> THEN s
    ELSE Run(Exec(s, entries[1], cfg), Tail(entries), cfg)

build_blueprint(entries, cfg) == Run(Fresh(cfg), entries, cfg).blueprint

\* the stream with every Push and Pop entry removed
RECURSIVE WithoutPushPop(_)
WithoutPushPop(entries) ==
    IF entries = <<>> THEN <<>>
    ELSE IF OpOf(entries[1]).op \in {"Push", "Pop"}
         THEN WithoutPushPop(Tail(entries))
         ELSE <<entries[1]>> \o WithoutPushPop(Tail(entries))

(***************************************************************************)
(* Vocabulary of the properties.                                           *)
(***************************************************************************)
\* this step is one completed iteration of the loop, handling an entry of op
Handles(opnames) == i' = i + 1 /\ view'.op \in opnames

\* this step dispatches an entry of op, whether or not the arm completes
Enters(opnames) == (i' = i + 1 \/ pc' = "panicked") /\ view'.op \in opnames

BodyIds == MapKeys(blueprint.modules)
JointIndex == 1..VecLen(blueprint.joints)
Joint(k) == JointAt(blueprint.joints, k)
StreamAt(k) == IF k <= stream.bulk THEN BoxEntry ELSE stream.over[k - stream.bulk]
StreamSeq == [k \in 1..VecLen(stream) |-> StreamAt(k)]

\* a collection written out in full
ExpandMap(m) == [k \in MapKeys(m) |-> ModuleAt(m, k)]
ExpandTransforms(m) == [k \in MapKeys(m) |-> TransformAt(m, k)]
ExpandJoints(v) == [k \in 1..VecLen(v) |-> JointAt(v, k)]
Expand(s) ==
    [ s EXCEPT !.blueprint.modules = ExpandMap(@),
               !.blueprint.joints = ExpandJoints(@),
               !.module_transforms = ExpandTransforms(@) ]

\* The closed form agrees with the code: when the entries handled so far
\* begin with n default boxes, running the rest from AfterBoxes(n) gives the
\* locals the loop has, once written out.
LeadingBoxes ==
    { n \in 1..Len(stream.over) : \A k \in 1..n : stream.over[k] = BoxEntry }

ClosedFormPrefixAgrees ==
    (stream.bulk = 0 /\ pc # "panicked") =>
        \A n \in LeadingBoxes :
            Expand(Run(AfterBoxes(n), SubSeq(stream.over, n + 1, Len(stream.over)), config))
                = Expand(Cur)

\* The closed form is inductive, also at the width of the counter: the spawn
\* arm takes AfterBoxes(n) to AfterBoxes(n + 1), writing out body n and its joint.
AfterBoxesInductive ==
    \A n \in {1, 2, LongStart - 1} :
        LET s == SpawnArm(AfterBoxes(n), BoxEntry, RobotConfig(MaxDepth), n + 1)
            a == AfterBoxes(n + 1)
        IN /\ s.turtle = a.turtle
           /\ s.stack = a.stack
           /\ s.next_module_id = a.next_module_id
           /\ s.blueprint.root_module = a.blueprint.root_module
           /\ s.blueprint.modules = [bulk |-> n, over |-> (n :> PrefixModule(n))]
           /\ s.blueprint.joints = [bulk |-> n - 1, over |-> <<PrefixJoint(n)>>]
           /\ s.module_transforms = [bulk |-> n, over |-> (n :> PrefixModule(n).transform)]

(***************************************************************************)
(* C1.  The k-th spawn executed (counting from 0) creates the body with    *)
(* id k: after a spawn that is the spawn_count-th, the body spawn_count    *)
(* exists and is the cursor's current body, whatever symbol the entry      *)
(* carries and whatever Push/Pop came before.                              *)
(***************************************************************************)
C1_IdsInSpawnOrder ==
    [][ Handles(SpawnOps) =>
          /\ turtle'.current_module_id = Some(spawn_count)
          /\ HasKey(blueprint'.modules, spawn_count) ]_vars

(***************************************************************************)
(* C2.  After any prefix of any stream the body mapping has as many        *)
(* entries as spawns were executed.                                        *)
(***************************************************************************)
C2_BodyCountIsSpawnCount ==
    pc # "panicked" => Cardinality(BodyIds) = spawn_count

(***************************************************************************)
(* C3.  In every state of build_blueprint, and in the returned blueprint,  *)
(* every joint's parent_id and child_id are keys of the body mapping.      *)
(***************************************************************************)
C3_JointEndsAreBodies ==
    \A k \in JointIndex :
        /\ HasKey(blueprint.modules, Joint(k).parent_id)
        /\ HasKey(blueprint.modules, Joint(k).child_id)

\* a returned blueprint with joints, built by a stream that branches
C3_Witness ==
    /\ pc = "returned"
    /\ VecLen(blueprint.joints) >= 2
    /\ pops >= 1

(***************************************************************************)
(* C4.  Every joint has parent_id < child_id.                              *)
(***************************************************************************)
C4_ParentBeforeChild ==
    \A k \in JointIndex : Joint(k).parent_id < Joint(k).child_id

(***************************************************************************)
(* C5.  A spawn appends exactly one joint (child_id the new body's id,     *)
(* parent_id the cursor's current body) when the cursor has a current      *)
(* body and none otherwise; no body id is the child_id of two joints;      *)
(* joints already in the list are never modified.                          *)
(***************************************************************************)
C5_SpawnAppendsItsJoint ==
    Handles(SpawnOps) =>
        IF IsSome(turtle.current_module_id)
        THEN /\ VecLen(blueprint'.joints) = VecLen(blueprint.joints) + 1
             /\ JointAt(blueprint'.joints, VecLen(blueprint'.joints)).child_id
                    = Unwrap(turtle'.current_module_id)
             /\ JointAt(blueprint'.joints, VecLen(blueprint'.joints)).parent_id
                    = Unwrap(turtle.current_module_id)
        ELSE VecLen(blueprint'.joints) = VecLen(blueprint.joints)

C5_JointsKept ==
    /\ VecLen(blueprint'.joints) >= VecLen(blueprint.joints)
    /\ \A k \in JointIndex : JointAt(blueprint'.joints, k) = Joint(k)
    /\ (~Handles(SpawnOps) => blueprint'.joints = blueprint.joints)

C5_OneJointPerChild ==
    Cardinality({Joint(k).child_id : k \in JointIndex}) = VecLen(blueprint.joints)

C5_JointPerSpawn ==
    /\ [](C5_OneJointPerChild)
    /\ [][C5_SpawnAppendsItsJoint /\ C5_JointsKept]_vars

(***************************************************************************)
(* C6.  From a state whose stack is below the maximum depth, a Push        *)
(* immediately followed by a Pop leaves the cursor (all six fields) and    *)
(* the stack as they were before the Push.  pre_turtle and pre_stack are   *)
(* the cursor and the stack before the entry handled last, here the Push.  *)
(***************************************************************************)
C6_PushPopRestores ==
    [][ ( /\ view.op = "Push"
          /\ Len(pre_stack) < config.max_stack_depth
          /\ Handles({"Pop"}) )
        => (turtle' = pre_turtle /\ stack' = pre_stack) ]_vars

\* a Push then a Pop were handled, on a cursor that stands on a body with a
\* material set, above a snapshot already saved
C6_Witness ==
    /\ i >= 2
    /\ OpOf(StreamAt(i - 1)).op = "Push"
    /\ view.op = "Pop"
    /\ Len(stack) >= 1
    /\ Len(stack) < config.max_stack_depth
    /\ IsSome(turtle.current_module_id)
    /\ turtle.material_id = 1
    /\ stack[Len(stack)] # turtle

(***************************************************************************)
(* C7.  With max_stack_depth D >= 1 and the stack empty at the start,      *)
(* after D+1 Push entries (any other entries between them, no Pop) a Pop   *)
(* sets the cursor to the snapshot taken at Push number D, not to the      *)
(* cursor at the dropped Push number D+1.                                  *)
(***************************************************************************)
C7_PopAfterOverflowRestoresLastKept ==
    [][ ( /\ config.max_stack_depth >= 1
          /\ pops = 0
          /\ Len(pushes) = config.max_stack_depth + 1
          /\ Handles({"Pop"}) )
        => turtle' = pushes[config.max_stack_depth] ]_vars

\* such a Pop was handled, and the cursor differed between the last two Pushes
C7_Witness ==
    /\ config.max_stack_depth >= 1
    /\ pops = 1
    /\ view.op = "Pop"
    /\ Len(pushes) = config.max_stack_depth + 1
    /\ pushes[config.max_stack_depth] # pushes[config.max_stack_depth + 1]
    /\ turtle = pushes[config.max_stack_depth]

(***************************************************************************)
(* C8.  The stack never holds more than max_stack_depth snapshots, and a   *)
(* Push handled when it holds max_stack_depth changes neither the stack,   *)
(* nor the cursor, nor the blueprint.                                      *)
(***************************************************************************)
C8_StackBounded == Len(stack) <= config.max_stack_depth

C8_PushAtMaxDropped ==
    /\ [](C8_StackBounded)
    /\ [][ (Len(stack) = config.max_stack_depth /\ Handles({"Push"}))
           => (stack' = stack /\ turtle' = turtle /\ blueprint' = blueprint) ]_vars

\* a Push was handled with a full, non-empty stack
C8_Witness ==
    /\ view.op = "Push"
    /\ config.max_stack_depth >= 1
    /\ Len(pre_stack) = config.max_stack_depth
    /\ Len(stack) = config.max_stack_depth
    /\ BodyIds # {}

(***************************************************************************)
(* C9.  A Pop handled with an empty stack leaves the cursor, the stack     *)
(* and the blueprint unchanged, and the loop goes on to the next entry.    *)
(***************************************************************************)
C9_PopOnEmptyIsNoOp ==
    [][ (stack = <<>> /\ Enters({"Pop"}))
        => ( /\ turtle' = turtle
             /\ stack' = stack
             /\ blueprint' = blueprint
             /\ pc' = "loop"
             /\ i' = i + 1 ) ]_vars

\* a Pop was handled with an empty stack by a cursor standing on a body, and
\* the loop went on
C9_Witness ==
    /\ view.op = "Pop"
    /\ pre_stack = <<>>
    /\ pushes # <<>>
    /\ IsSome(turtle.current_module_id)
    /\ turtle.material_id = 1
    /\ pc = "loop"
    /\ i < state_len

(***************************************************************************)
(* C10.  With max_stack_depth = 0 the stack stays empty, no Pop changes    *)
(* the cursor, and the blueprint is the one build_blueprint produces from  *)
(* the same stream with every Push and Pop entry removed.                  *)
(***************************************************************************)
C10_SameAsWithoutPushPop ==
    config.max_stack_depth = 0 =>
        /\ stack = <<>>
        /\ blueprint = build_blueprint(WithoutPushPop(StreamSeq), config)

C10_DepthZeroDisablesBranching ==
    /\ [](C10_SameAsWithoutPushPop)
    /\ [][ (config.max_stack_depth = 0 /\ Handles({"Pop"}))
           => turtle' = turtle ]_vars

\* the returned blueprint of box, Push, box, Pop, box with depth 0: the third
\* box hangs on the second, not on the first
C10_Witness ==
    /\ config.max_stack_depth = 0
    /\ pc = "returned"
    /\ VecLen(stream) = 5
    /\ OpOf(StreamAt(1)).op \in SpawnOps
    /\ OpOf(StreamAt(2)).op = "Push"
    /\ OpOf(StreamAt(3)).op \in SpawnOps
    /\ OpOf(StreamAt(4)).op = "Pop"
    /\ OpOf(StreamAt(5)).op \in SpawnOps
    /\ Joint(2).parent_id = 1

(***************************************************************************)
(* C11.  A MountSensor handled while the cursor has no current body        *)
(* changes nothing; and while every MountSensor entry of the stream so far *)
(* precedes its first spawn, no body carries a sensor mount.               *)
(***************************************************************************)
Sensors(k) == ModuleAt(blueprint.modules, k).sensors

MountsPrecedeSpawns ==
    \A k \in 1..VecLen(stream) :
        OpOf(StreamAt(k)).op = "MountSensor" =>
            \A j \in 1..(k - 1) : OpOf(StreamAt(j)).op \notin SpawnOps

C11_NoMountsBeforeFirstSpawn ==
    MountsPrecedeSpawns => \A k \in BodyIds : Sensors(k) = <<>>

C11_MountNeedsCurrentBody ==
    /\ [](C11_NoMountsBeforeFirstSpawn)
    /\ [][ (turtle.current_module_id = None /\ Handles({"MountSensor"}))
           => ( /\ blueprint' = blueprint
                /\ module_transforms' = module_transforms
                /\ turtle' = turtle
                /\ stack' = stack
                /\ next_module_id' = next_module_id ) ]_vars

\* a MountSensor was handled by a cursor that a Pop had put back to no current
\* body, with a body in the blueprint
C11_Witness ==
    /\ view.op = "MountSensor"
    /\ pre_turtle.current_module_id = None
    /\ pops >= 1
    /\ BodyIds # {}
    /\ pc = "loop"

(***************************************************************************)
(* C12.  SetJointLimits with parameters a, b (defaults -pi, pi) stores the *)
(* two values as min and max with min <= max; and every limit record of    *)
(* the cursor, of a saved snapshot and of a joint has min <= max.          *)
(***************************************************************************)
LimitsOrdered(l) == IsSome(l) => FLe(Unwrap(l).min, Unwrap(l).max)

C12_AllLimitsOrdered ==
    /\ LimitsOrdered(turtle.joint_config.limits)
    /\ \A k \in 1..Len(stack) : LimitsOrdered(stack[k].joint_config.limits)
    /\ \A k \in JointIndex : LimitsOrdered(Joint(k).limits)

C12_LimitsStoredOrdered ==
    /\ [](C12_AllLimitsOrdered)
    /\ [][ Handles({"SetJointLimits"}) =>
            LET a == p(view', 0, 0 - PI)
                b == p(view', 1, PI)
                l == Unwrap(turtle'.joint_config.limits)
            IN /\ IsSome(turtle'.joint_config.limits)
               /\ {l.min, l.max} = {a, b}
               /\ FLe(l.min, l.max)
               /\ l.effort = p(view', 2, 100)
               /\ l.velocity = p(view', 3, 10) ]_vars

(***************************************************************************)
(* C13.  The stream box(L), SetJointType(Hinge), box(L) gives 2 bodies and *)
(* 1 joint, from body 0 to body 1, a hinge, anchored at (0, L/2, 0) on the *)
(* parent and at (0, -L/2, 0) on the child.  In general a spawn that       *)
(* follows the spawn of its parent with no Move, rotation or Pop between   *)
(* them anchors its joint at the parent's top pole and at the child's      *)
(* bottom pole.                                                            *)
(***************************************************************************)
\* the growth length of a body, read off its shape
GrowthOf(shape) ==
    CASE shape.kind = "Box"      -> 2 * shape.dims[2]
      [] shape.kind = "Cylinder" -> shape.dims[2]
      [] shape.kind = "Capsule"  -> shape.dims[2]
      [] shape.kind = "Sphere"   -> 2 * shape.dims[1]

SpawnIdx == {k \in 1..VecLen(stream) : OpOf(StreamAt(k)).op \in SpawnOps}
MaxOf(S) == CHOOSE x \in S : \A y \in S : y <= x

\* the entry handled last but for entries that leave the cursor's pose and
\* current body alone was a spawn
DirectlyAfterSpawn ==
    /\ SpawnIdx # {}
    /\ \A k \in (MaxOf(SpawnIdx) + 1)..VecLen(stream) :
          OpOf(StreamAt(k)).op \notin {"Move", "Yaw", "Pitch", "Roll", "TurnAround", "Pop"}

C13_SimpleArm ==
    ( /\ VecLen(stream) = 3
      /\ OpOf(StreamAt(1)).op = "SpawnBox"
      /\ OpOf(StreamAt(2)).op = "SetJointType"
      /\ OpOf(StreamAt(2)).arg = "Hinge"
      /\ StreamAt(3) = StreamAt(1) )
    => LET L == Abs(p(StreamAt(1), 0, config.default_length))
       IN /\ BodyIds = {0, 1}
          /\ VecLen(blueprint.joints) = 1
          /\ Joint(1).parent_id = 0
          /\ Joint(1).child_id = 1
          /\ Joint(1).joint_type = "Hinge"
          /\ Joint(1).anchor_parent = <<0, Half(L), 0>>
          /\ Joint(1).anchor_child = <<0, 0 - Half(L), 0>>

C14_NoSpawnNoGraph ==
    SpawnIdx = {} =>
        /\ BodyIds = {}
        /\ VecLen(blueprint.joints) = 0
        /\ blueprint.root_module = None

\* the blueprint returned for a stream of MaxLen entries, none a spawn, among
\* them a sensor mount and a push
C14_Witness ==
    /\ pc = "returned"
    /\ VecLen(stream) >= 3
    /\ SpawnIdx = {}
    /\ \E k \in 1..VecLen(stream) : OpOf(StreamAt(k)).op = "MountSensor"
    /\ \E k \in 1..VecLen(stream) : OpOf(StreamAt(k)).op = "Push"
    /\ stack # <<>>

\* the empty stream was returned
C14_EmptyStreamReturned == pc = "returned" /\ state_len = 0

(***************************************************************************)
(* C15.  build_blueprint never aborts: every step of the loop handles the  *)
(* entry at index i and moves to index i + 1, and when the entries are     *)
(* exhausted, after state_len steps, the blueprint is returned.            *)
(***************************************************************************)
C15_NotAborted == pc \in {"loop", "returned"}

C15_NeverAborts ==
    /\ [](C15_NotAborted)
    /\ [][ /\ (pc = "loop" /\ i < state_len) =>
                (pc' = "loop" /\ i' = i + 1 /\ VecLen(stream') = i + 1)
           /\ (pc = "loop" /\ i = state_len) => pc' = "returned"
           /\ pc # "loop" => pc' = pc ]_vars

(***************************************************************************)
(* C16.  An entry whose symbol is outside the operation table, or in a     *)
(* slot of the table that holds Ignore (the gap slots set_op fills        *)
(* included), leaves the cursor, the stack, the id counter and the         *)
(* blueprint unchanged.                                                    *)
(***************************************************************************)
ResolvesToIgnore(sym) == sym >= Len(op_map) \/ op_map[sym + 1].op = "Ignore"

C16_UnmappedSymbolIsNoOp ==
    [][ (i' = i + 1 /\ ResolvesToIgnore(view'.sym))
        => ( /\ turtle' = turtle
             /\ stack' = stack
             /\ next_module_id' = next_module_id
             /\ blueprint' = blueprint
             /\ module_transforms' = module_transforms ) ]_vars

\* after a spawn, the gap symbol 16 and then the outside symbol 18 were handled
C16_Witness ==
    /\ VecLen(stream) = 3
    /\ OpOf(StreamAt(1)).op \in SpawnOps
    /\ StreamAt(2).sym = 16
    /\ view.sym = 18
    /\ view.sym >= Len(op_map)
    /\ op_map[16 + 1] = Ignore
    /\ BodyIds = {0}

(***************************************************************************)
(* C17.  The root is none until the first spawn, the first spawn sets it   *)
(* to the id of the body it creates, the first body ever spawned, and no   *)
(* later step changes it.                                                  *)
(***************************************************************************)
C17_RootNoneOrFirst ==
    blueprint.root_module = IF spawn_count = 0 THEN None ELSE Some(0)

C17_RootIsFirstBody ==
    /\ [](C17_RootNoneOrFirst)
    /\ [][ /\ (blueprint.root_module = None /\ Handles(SpawnOps)) =>
                /\ blueprint'.root_module = turtle'.current_module_id
                /\ BodyIds = {}
           /\ blueprint.root_module # None =>
                blueprint'.root_module = blueprint.root_module ]_vars

\* the returned blueprint of a stream in which a Pop put the cursor back to no
\* current body, a second, detached body was spawned and carries a sensor
C17_Witness ==
    /\ pc = "returned"
    /\ pops >= 1
    /\ BodyIds = {0, 1}
    /\ VecLen(blueprint.joints) = 0
    /\ Sensors(1) # <<>>
    /\ blueprint.root_module = Some(0)

(***************************************************************************)
(* C18.  A body of the blueprint stays in it with its shape, mass,         *)
(* density, material id and rest transform; its sensor list only grows at  *)
(* its end; and a Pop changes nothing of the blueprint.                    *)
(***************************************************************************)
BodyKept(k) ==
    /\ HasKey(blueprint'.modules, k)
    /\ LET a == ModuleAt(blueprint.modules, k)
           b == ModuleAt(blueprint'.modules, k)
       IN /\ b.shape = a.shape
          /\ b.mass = a.mass
          /\ b.density = a.density
          /\ b.material_id = a.material_id
          /\ b.transform = a.transform
          /\ Len(b.sensors) >= Len(a.sensors)
          /\ SubSeq(b.sensors, 1, Len(a.sensors)) = a.sensors

C18_BodiesOnlyGainSensors ==
    [][ /\ \A k \in BodyIds : BodyKept(k)
        /\ Handles({"Pop"}) => blueprint' = blueprint ]_vars

(***************************************************************************)
(* C19.  A spawn with a negative parameter gives the same body (shape,     *)
(* mass, rest transform), the same joint and the same cursor as the spawn  *)
(* with that parameter replaced by its absolute value; and a spawn moves   *)
(* the cursor along its up axis by a length that is not negative.          *)
(***************************************************************************)
AbsAt(e, j) == [e EXCEPT !.params[j] = Abs(@)]
Dot(a, b) == a[1] * b[1] + a[2] * b[2] + a[3] * b[3]

C19_NegativeDimensionsCoerced ==
    [][ Handles(SpawnOps) =>
          LET e == Entry(view'.sym, view'.params)
              advance == VSub(turtle'.position, turtle.position)
          IN /\ \A j \in 1..Len(e.params) :
                   LET r == SpawnArm(Cur, AbsAt(e, j), config, next_module_id')
                   IN /\ blueprint' = r.blueprint
                      /\ module_transforms' = r.module_transforms
                      /\ turtle' = r.turtle
             /\ Dot(advance, up(turtle)) >= 0
             /\ advance = VScale(up(turtle), Dot(advance, up(turtle)))
             /\ Dot(advance, up(turtle))
                  = GrowthOf(ModuleAt(blueprint'.modules, Unwrap(turtle'.current_module_id)).shape)
        ]_vars

\* a box with negative width and height was spawned by a cursor with a
\* negative width, on top of a shape spawned with a negative length
C19_Witness ==
    /\ VecLen(stream) = 3
    /\ OpOf(StreamAt(2)).op \in SpawnOps
    /\ StreamAt(2).params # <<>>
    /\ StreamAt(2).params[1] < 0
    /\ view = [sym |-> 0, params |-> <<4, 0 - 4, 0 - 2>>, op |-> "SpawnBox"]
    /\ turtle.width < 0
    /\ BodyIds = {0, 1}

(***************************************************************************)
(* C20.  After a stream of one entry, a box spawn of length L, the         *)
(* blueprint has exactly one body, which is the root, no joint, and the    *)
(* body's mass is 8 * hx * hy * hz * density for its half-extents          *)
(* (hx, hy, hz), hy = |L| / 2, and the configured default density.         *)
(***************************************************************************)
C20_SingleBox ==
    (VecLen(stream) = 1 /\ OpOf(StreamAt(1)).op = "SpawnBox") =>
        /\ BodyIds = {0}
        /\ blueprint.root_module = Some(0)
        /\ VecLen(blueprint.joints) = 0
        /\ LET body == ModuleAt(blueprint.modules, 0)
               h == body.shape.dims
           IN /\ body.shape.kind = "Box"
              /\ h[2] = Half(Abs(p(StreamAt(1), 0, config.default_length)))
              /\ body.density = config.default_density
              /\ body.mass = <<8 * h[1] * h[2] * h[3] * config.default_density, 0>>

\* the blueprint returned for the one-entry stream box(4, -4, -2): half-extents
\* (2, 2, 1), density 100, mass 3200
C20_Witness ==
    /\ pc = "returned"
    /\ state_len = 1
    /\ view = [sym |-> 0, params |-> <<4, 0 - 4, 0 - 2>>, op |-> "SpawnBox"]
    /\ ModuleAt(blueprint.modules, 0).shape.dims = <<2, 2, 1>>
    /\ ModuleAt(blueprint.modules, 0).mass = <<3200, 0>>

(***************************************************************************)
(* C21.  A spawn of growth length g (the length of a box, the height of a  *)
(* cylinder or capsule, twice the radius of a sphere) handled at cursor    *)
(* position pos stores the new body's rest position pos + up * (g / 2) and *)
(* the cursor's rotation as its rest rotation, moves the cursor to         *)
(* pos + up * g, makes the new body the cursor's current body, and leaves  *)
(* the cursor's rotation, joint configuration, material id and width and   *)
(* the stack unchanged.                                                    *)
(***************************************************************************)
\* the growth length the entry e asks for, by the cursor t
GrowthLength(e, t, cfg) ==
    IF OpOf(e).op = "SpawnSphere"
    THEN 2 * Abs(p(e, 0, Half(t.width)))
    ELSE Abs(p(e, 0, cfg.default_length))

C21_SpawnPlacesBodyAndAdvances ==
    [][ Handles(SpawnOps) =>
          LET id == next_module_id
              g == GrowthLength(view', turtle, config)
              body == ModuleAt(blueprint'.modules, id)
          IN /\ HasKey(blueprint'.modules, id)
             /\ HasKey(module_transforms', id)
             /\ GrowthOf(body.shape) = g
             /\ body.transform[1] = VAdd(turtle.position, VScale(up(turtle), Half(g)))
             /\ body.transform[2] = turtle.rotation
             /\ TransformAt(module_transforms', id) = body.transform
             /\ turtle'.position = VAdd(turtle.position, VScale(up(turtle), g))
             /\ turtle'.current_module_id = Some(id)
             /\ turtle'.rotation = turtle.rotation
             /\ turtle'.joint_config = turtle.joint_config
             /\ turtle'.material_id = turtle.material_id
             /\ turtle'.width = turtle.width
             /\ stack' = stack ]_vars

\* a box of length 4 was spawned by a pitched cursor, with
\* a snapshot on the stack
C21_Witness ==
    /\ view = [sym |-> 0, params |-> <<0 - 4, 4, 2>>, op |-> "SpawnBox"]
    /\ stack # <<>>
    /\ turtle.rotation # QuatIDENTITY
    /\ turtle.current_module_id = Some(0)
    /\ turtle.position = <<0, 0, 0 - 4>>
    /\ ModuleAt(blueprint.modules, 0).transform[1] = <<0, 0, 0 - 2>>

(***************************************************************************)
(* C22.  SetJointType, SetJointLimits, SetMaterial and SetWidth change     *)
(* only their own field of the cursor (the joint type, the limits, the     *)
(* material id, the width): the cursor's other fields, the stack, the id   *)
(* counter, the blueprint and the transform table are unchanged.  SetWidth *)
(* without a parameter leaves the width unchanged too.                     *)
(***************************************************************************)
\* nothing but the cursor changed in this step
OnlyCursorChanges ==
    /\ stack' = stack
    /\ next_module_id' = next_module_id
    /\ blueprint' = blueprint
    /\ module_transforms' = module_transforms

C22_ConfigOpsChangeOneField ==
    [][ /\ Handles({"SetJointType"}) =>
            /\ OnlyCursorChanges
            /\ turtle' = [turtle EXCEPT !.joint_config.joint_type = OpOf(view').arg]
        /\ Handles({"SetJointLimits"}) =>
            /\ OnlyCursorChanges
            /\ turtle' = [turtle EXCEPT !.joint_config.limits = turtle'.joint_config.limits]
            /\ IsSome(turtle'.joint_config.limits)
        /\ Handles({"SetMaterial"}) =>
            /\ OnlyCursorChanges
            /\ turtle' = [turtle EXCEPT !.material_id = AsU8(p(view', 0, 0))]
        /\ Handles({"SetWidth"}) =>
            /\ OnlyCursorChanges
            /\ turtle' = [turtle EXCEPT !.width = turtle'.width]
            /\ (view'.params = <<>> => turtle' = turtle)
            /\ (view'.params # <<>> => turtle'.width = view'.params[1]) ]_vars

\* a SetWidth without a parameter was handled by a cursor of width 4, not the
\* default, standing on a body, with a snapshot on the stack
C22_Witness ==
    /\ view = [sym |-> 12, params |-> <<>>, op |-> "SetWidth"]
    /\ turtle.width = 4
    /\ turtle.width # config.default_width
    /\ IsSome(turtle.current_module_id)
    /\ stack # <<>>

(***************************************************************************)
(* C23.  Move changes only the cursor's position, and Yaw, Pitch, Roll     *)
(* and TurnAround change only the cursor's rotation: the current body, the *)
(* joint configuration, the material id, the width, the stack, the id      *)
(* counter, the blueprint and the transform table are unchanged.           *)
(***************************************************************************)
C23_SpatialOpsMoveOnlyTheCursor ==
    [][ /\ Handles({"Move"}) =>
            /\ OnlyCursorChanges
            /\ turtle' = [turtle EXCEPT !.position =
                            VAdd(@, VScale(up(turtle), p(view', 0, config.default_length)))]
        /\ Handles({"Yaw", "Pitch", "Roll", "TurnAround"}) =>
            /\ OnlyCursorChanges
            /\ turtle' = [turtle EXCEPT !.rotation = turtle'.rotation] ]_vars

\* a Move was handled by a cursor that stands on a body, after a rotation
C23_Witness ==
    /\ VecLen(stream) = 3
    /\ OpOf(StreamAt(1)).op \in SpawnOps
    /\ OpOf(StreamAt(2)).op \in {"Yaw", "Pitch", "Roll", "TurnAround"}
    /\ view.op = "Move"
    /\ turtle.rotation # QuatIDENTITY
    /\ turtle.position # pre_turtle.position
    /\ turtle.current_module_id = Some(0)
    /\ BodyIds = {0}

(***************************************************************************)
(* C24.  Every joint carries the joint type and the limits the cursor's    *)
(* joint configuration held when the spawn that created it was handled,    *)
(* and keeps them.  A SetJointType or SetJointLimits handled between a     *)
(* Push and its Pop does not affect the joints created after the Pop: they *)
(* are the joints of the stream without those entries.                     *)
(*   As stated, for a Push and the Pop that closes its bracket, this       *)
(* fails: a Push handled with max_stack_depth snapshots on the stack saves *)
(* nothing, and the Pop that closes its bracket restores an older snapshot *)
(* or, on an empty stack, nothing.  It holds for a Push that saved a       *)
(* snapshot and the Pop that takes that snapshot back.                     *)
(***************************************************************************)
JointConfigOps == {"SetJointType", "SetJointLimits"}

\* the pairs <<a, b>> of a Push at index a and the Pop at index b that takes
\* it off, when at most `limit` Pushes are open at a time and a Push beyond
\* that is not counted; open holds the indices of the open Pushes
RECURSIVE PushPopPairs(_, _, _, _)
PushPopPairs(entries, k, open, limit) ==
    IF k > Len(entries) THEN {}
    ELSE LET opname == OpOf(entries[k]).op
         IN CASE opname = "Push" /\ Len(open) < limit ->
                    PushPopPairs(entries, k + 1, Append(open, k), limit)
              [] opname = "Pop" /\ open # <<>> ->
                    {<<open[Len(open)], k>>}
                        \cup PushPopPairs(entries, k + 1, SubSeq(open, 1, Len(open) - 1), limit)
              [] OTHER -> PushPopPairs(entries, k + 1, open, limit)

\* the brackets of the stream, and the pairs of a saved snapshot and its Pop
BracketPairs(entries) == PushPopPairs(entries, 1, <<>>, Len(entries))
SnapshotPairs(entries, cfg) == PushPopPairs(entries, 1, <<>>, cfg.max_stack_depth)

\* the stream without the joint configuration entries strictly between a and b
RECURSIVE WithoutJointConfigBetween(_, _, _, _)
WithoutJointConfigBetween(entries, k, a, b) ==
    IF k > Len(entries) THEN <<>>
    ELSE IF a < k /\ k < b /\ OpOf(entries[k]).op \in JointConfigOps
         THEN WithoutJointConfigBetween(entries, k + 1, a, b)
         ELSE <<entries[k]>> \o WithoutJointConfigBetween(entries, k + 1, a, b)

\* type and limits of the joints of a stream's blueprint whose child is the
\* n-th body spawned or a later one, by child
TypeAndLimitsFrom(entries, n, cfg) ==
    LET js == ExpandJoints(build_blueprint(entries, cfg).joints)
    IN { <<js[k].child_id, js[k].joint_type, js[k].limits>> :
           k \in {x \in DOMAIN js : js[x].child_id >= n} }

SpawnsUpTo(entries, b) ==
    Cardinality({k \in 1..b : OpOf(entries[k]).op \in SpawnOps})

\* the joint configuration entries between a and b do not show in the joints
\* created after b
NoEffectAfter(entries, a, b, cfg) ==
    TypeAndLimitsFrom(entries, SpawnsUpTo(entries, b), cfg)
        = TypeAndLimitsFrom(WithoutJointConfigBetween(entries, 1, a, b),
                            SpawnsUpTo(entries, b), cfg)

C24_JointCopiesConfig ==
    /\ Handles(SpawnOps) /\ VecLen(blueprint'.joints) > VecLen(blueprint.joints) =>
          LET j == JointAt(blueprint'.joints, VecLen(blueprint'.joints))
          IN /\ j.joint_type = turtle.joint_config.joint_type
             /\ j.limits = turtle.joint_config.limits
    /\ \A k \in JointIndex :
          /\ JointAt(blueprint'.joints, k).joint_type = Joint(k).joint_type
          /\ JointAt(blueprint'.joints, k).limits = Joint(k).limits

GainsOneMount(k, sensor_type) ==
    /\ MapKeys(blueprint'.modules) = BodyIds
    /\ LET a == ModuleAt(blueprint.modules, k)
           b == ModuleAt(blueprint'.modules, k)
       IN /\ Len(b.sensors) = Len(a.sensors) + 1
          /\ SubSeq(b.sensors, 1, Len(a.sensors)) = a.sensors
          /\ b.sensors[Len(b.sensors)].sensor_type = sensor_type
          /\ b = [a EXCEPT !.sensors = b.sensors]
    /\ \A other \in BodyIds \ {k} :
          ModuleAt(blueprint'.modules, other) = ModuleAt(blueprint.modules, other)
    /\ blueprint'.joints = blueprint.joints
    /\ blueprint'.root_module = blueprint.root_module

\* the mount of this step went to the body `owner`, to none if owner is None
MountGoesTo(owner) ==
    IF IsSome(owner)
    THEN GainsOneMount(Unwrap(owner), OpOf(view').arg)
    ELSE blueprint' = blueprint

C25_MountOnCurrentBody ==
    Handles({"MountSensor"}) => MountGoesTo(turtle.current_module_id)

\* the entries handled so far end with a Pop and entries that are neither a
\* spawn nor a Pop, and the Pop is the second of one of the pairs
LastPopOrSpawn ==
    MaxOf({0} \cup {k \in 1..VecLen(stream) :
                      OpOf(StreamAt(k)).op \in SpawnOps \cup {"Pop"}})

PushOrdinal(a) == Cardinality({k \in 1..a : OpOf(StreamAt(k)).op = "Push"})

C25_MountAfterPop(pairs) ==
    \A pair \in pairs :
        (pair[2] = LastPopOrSpawn /\ Handles({"MountSensor"}))
            => MountGoesTo(pushes[PushOrdinal(pair[1])].current_module_id)

CurrentBodyKnown(t) ==
    IsSome(t.current_module_id) =>
        /\ HasKey(blueprint.modules, Unwrap(t.current_module_id))
        /\ HasKey(module_transforms, Unwrap(t.current_module_id))

C26_CurrentBodiesKnown ==
    /\ CurrentBodyKnown(turtle)
    /\ \A k \in 1..Len(stack) : CurrentBodyKnown(stack[k])

C26_LookupsSucceed ==
    /\ [](C26_CurrentBodiesKnown)
    /\ [][ /\ (Handles(SpawnOps) /\ IsSome(turtle.current_module_id)) =>
                VecLen(blueprint'.joints) = VecLen(blueprint.joints) + 1
           /\ (Handles({"MountSensor"}) /\ IsSome(turtle.current_module_id)) =>
                Len(ModuleAt(blueprint'.modules, Unwrap(turtle.current_module_id)).sensors)
                    = Len(Sensors(Unwrap(turtle.current_module_id))) + 1 ]_vars

\* box, Push, box, MountSensor: the snapshot stands on body 0, the cursor on
\* body 1, which is joined to body 0 and carries the sensor
C26_Witness ==
    /\ view.op = "MountSensor"
    /\ Len(stack) = 1
    /\ stack[1].current_module_id = Some(0)
    /\ turtle.current_module_id = Some(1)
    /\ VecLen(blueprint.joints) = 1
    /\ Len(Sensors(1)) = 1

(***************************************************************************)
(* C27.  After any prefix of any stream the number of joints is the number *)
(* of bodies minus the number of spawns handled while the cursor had no    *)
(* current body.  The first spawn is one of those, so with a body in the   *)
(* blueprint joints <= bodies - 1, and the inequality is strict exactly    *)
(* when a Pop restored a snapshot taken before any body existed and a      *)
(* spawn followed.                                                         *)
(***************************************************************************)
\* the pairs of a saved snapshot and its Pop, by index in the entries written
\* out (the default boxes of a closed-form prefix hold no Push and no Pop)
WrittenPairs == PushPopPairs(stream.over, 1, <<>>, config.max_stack_depth)

SpawnWithin(lo, hi) ==
    \E k \in lo..hi : OpOf(stream.over[k]).op \in SpawnOps

\* the snapshot of the pair was taken before any body existed
TakenWithoutBody(pair) == stream.bulk = 0 /\ ~SpawnWithin(1, pair[1] - 1)

\* a Pop restored a snapshot taken before any body existed, and a spawn followed
PopToNoBodyThenSpawn ==
    \E pair \in WrittenPairs :
        /\ TakenWithoutBody(pair)
        /\ SpawnWithin(pair[2] + 1, Len(stream.over))

\* the same, for a Pop handled when a body existed
PopOffBodyThenSpawn ==
    \E pair \in WrittenPairs :
        /\ TakenWithoutBody(pair)
        /\ SpawnWithin(pair[1] + 1, pair[2] - 1)
        /\ SpawnWithin(pair[2] + 1, Len(stream.over))

JointsAreBodiesLessOrphans ==
    /\ VecLen(blueprint.joints) = Cardinality(BodyIds) - orphan_spawns
    /\ BodyIds # {} =>
          /\ orphan_spawns >= 1
          /\ VecLen(blueprint.joints) <= Cardinality(BodyIds) - 1

C27_JointsCountAttachedSpawns ==
    pc # "panicked" =>
        /\ JointsAreBodiesLessOrphans
        /\ BodyIds # {} =>
              (VecLen(blueprint.joints) < Cardinality(BodyIds) - 1 <=> PopToNoBodyThenSpawn)

\* the count alone, and the count with the Pop handled when a body existed
C27_CountOnly == pc # "panicked" => JointsAreBodiesLessOrphans

C27_CountWithPopOffBody ==
    pc # "panicked" =>
        /\ JointsAreBodiesLessOrphans
        /\ BodyIds # {} =>
              (VecLen(blueprint.joints) < Cardinality(BodyIds) - 1 <=> PopOffBodyThenSpawn)

====
